---- MODULE Spec2Model ----
(***************************************************************************)
(* Model of crypto/src/batch_contribution.rs: BatchContribution with its   *)
(* operations receipt, add_entropy and validate, the tau derivation        *)
(* derive_taus and the standalone preview get_pot_pubkeys.                 *)
(*                                                                         *)
(* Vectors are functions over 0..n-1, so that an index of the model is the *)
(* index of the Rust Vec.  A group element is represented by its discrete  *)
(* logarithm modulo Order (G2::one() is 1); Bad stands for a malformed     *)
(* point, which every backend rejects.                                     *)
(***************************************************************************)
EXTENDS Integers, Sequences, FiniteSets, TLC

\* ------------------------------------------------------------------ bounds
MaxN == 3          \* largest batch of the main specification
MaxEntropy == 1    \* entropies are 0..MaxEntropy
MaxCalls == 2      \* calls of a call sequence (SpecSeq)
MaxFresh == 4      \* largest freshly-initialised batch of the preview specification

VARIABLES
    contributions,    \* self.contributions
    ecdsa_signature,  \* self.ecdsa_signature
    original,         \* the batch as received, which the caller may clone
    engine,           \* the type parameter E
    pc,               \* "idle", "forked" (item tasks in flight) or "panicked"
    op,               \* the operation in progress or last completed
    entropy,          \* argument of the current call
    identity,         \* argument of the current call
    taus,             \* the local taus
    status,           \* per item task: "pending", "running", "ok", "err", "skipped"
    full,             \* try_for_each's short-circuit flag
    errs,             \* the failures the item tasks returned
    res,              \* the Result the call returned
    out,              \* the Vec<G2> the call returned
    before,           \* the batch when the current call started
    log,              \* the completed calls of add_entropy, validate and receipt
    pot               \* the value get_pot_pubkeys returned, and for which entropy

vars == <<contributions, ecdsa_signature, original, engine, pc, op, entropy, identity,
          taus, status, full, errs, res, out, before, log, pot>>

\* ------------------------------------------------------------- vectors
Vec(n) == 0 .. (n - 1)
VLen(v) == Cardinality(DOMAIN v)
EmptyVec == [i \in Vec(0) |-> 0]

\* ------------------------------------------------- group and backends
Order == 5         \* order of the (model) scalar field
Bad == 0 - 1       \* a malformed group element
One == 1           \* G1::one(), G2::one()

RECURSIVE Pow(_, _)
Pow(t, n) == IF n = 0 THEN 1 ELSE (t * Pow(t, n - 1)) % Order

\* One backend's accumulator update: powers[i] <- powers[i] * tau^i.  The
\* backend "Off" is a defective implementation that multiplies by (tau+1)^i.
BackendAddTau(b, tau, powers, cause) ==
    IF \E i \in DOMAIN powers : powers[i] = Bad
    THEN [ok |-> FALSE, v |-> powers, e |-> cause]
    ELSE LET t == IF b = "Off" THEN (tau + 1) % Order ELSE tau
         IN  [ok |-> TRUE,
              v  |-> [i \in DOMAIN powers |-> (powers[i] * Pow(t, i)) % Order],
              e  |-> "Ok"]

\* An engine is a sequence of backends: <<b>> is the backend b alone,
\* <<a, b>> the composite Both<a, b>, which runs both and requires agreement.
EngineAddTau(E, tau, powers, cause) ==
    LET ra == BackendAddTau(E[1], tau, powers, cause) IN
    IF Len(E) = 1 THEN ra
    ELSE LET rb == BackendAddTau(E[2], tau, powers, cause) IN
         IF ~ra.ok THEN ra
         ELSE IF ~rb.ok THEN rb
         ELSE IF ra.v # rb.v
              THEN [ok |-> FALSE, v |-> powers, e |-> "BackendDisagreement"]
              ELSE ra

add_tau_g1(E, tau, powers) == EngineAddTau(E, tau, powers, "InvalidG1Power")
add_tau_g2(E, tau, powers) == EngineAddTau(E, tau, powers, "InvalidG2Power")

\* One backend's scalar derivation: a deterministic map from the drawn secret
\* to a non-zero scalar.  The backend "OffTau" is a defective implementation
\* that derives another scalar.
BackendTau(b, secret) ==
    IF b = "OffTau" THEN ((secret + 1) % (Order - 1)) + 1
    ELSE (secret % (Order - 1)) + 1

\* The value that stands for a scalar derivation that aborted.
TauPanic == 0 - 3

\* Engine::generate_tau.  It returns a Tau and no Result, so the composite's
\* hard failure on a disagreement is a panic.
generate_tau(E, secret) ==
    IF Len(E) = 2 /\ BackendTau(E[1], secret) # BackendTau(E[2], secret)
    THEN TauPanic
    ELSE BackendTau(E[1], secret)

\* ------------------------------------------------------ the generator
\* ChaCha20Rng: the state is the seed and the position in the key stream.
KeyStream(seed, pos) == (7 * seed + 3 * pos + seed * pos + 2) % 11
\* A generator shared by the calls, which goes on where the last call stopped.
from_seed_shared(seed) == [seed |-> seed, pos |-> Len(log)]

from_seed(seed) == [seed |-> seed, pos |-> 0]
gen(rng) == [value |-> KeyStream(rng.seed, rng.pos),
             rng   |-> [rng EXCEPT !.pos = rng.pos + 1]]

\* derive_taus: one generator seeded by the entropy, size sequential draws.
RECURSIVE DrawTaus(_, _, _, _)
DrawTaus(E, rng, k, acc) ==
    IF k = 0 THEN acc
    ELSE LET d == gen(rng)
             n == VLen(acc)
         IN  DrawTaus(E, d.rng, k - 1,
                      [i \in Vec(n + 1) |->
                          IF i < n THEN acc[i] ELSE generate_tau(E, d.value)])

\* A derivation that fills the vector from its last index down.
derive_taus_backward(E, seed, size) ==
    LET ts == DrawTaus(E, from_seed(seed), size, EmptyVec)
    IN  [i \in Vec(size) |-> ts[size - 1 - i]]

derive_taus(E, seed, size) == DrawTaus(E, from_seed(seed), size, EmptyVec)

\* generate_tau panicked in one of the draws, and derive_taus with it.
Panicked(ts) == \E i \in DOMAIN ts : ts[i] = TauPanic

\* ------------------------------------------------------- Contribution
Identities == {"None", "Eth"}
NoBls == <<"none">>
BlsSign(id, tau) == <<id, tau>>

\* Contribution::add_tau: update the G1 powers, the G2 powers and the public
\* commitment with tau, then sign under the identity.  A failing step returns
\* at once and leaves the earlier steps' updates in place.
AddTau(c, tau, id, E) ==
    LET r1 == add_tau_g1(E, tau, c.g1) IN
    IF ~r1.ok THEN [c |-> c, r |-> r1.e]
    ELSE
    LET c1 == [c EXCEPT !.g1 = r1.v]
        r2 == add_tau_g2(E, tau, c.g2) IN
    IF ~r2.ok THEN [c |-> c1, r |-> r2.e]
    ELSE
    LET c2 == [c1 EXCEPT !.g2 = r2.v]
        r3 == add_tau_g2(E, tau, [k \in Vec(2) |-> IF k = 0 THEN One ELSE c.pot_pubkey]) IN
    IF ~r3.ok THEN [c |-> c2, r |-> r3.e]
    ELSE [c |-> [c2 EXCEPT !.pot_pubkey = r3.v[1], !.bls_signature = BlsSign(id, tau)],
          r |-> "Ok"]

\* One backend's validation of an item: the points are well formed and the
\* G1 and G2 powers carry the same scalar (the pairing check).  The backend
\* "Off" pairs against a wrong generator.
BackendValidate(b, c) ==
    IF \E k \in DOMAIN c.g1 : c.g1[k] = Bad THEN "InvalidG1Power"
    ELSE IF \E k \in DOMAIN c.g2 : c.g2[k] = Bad THEN "InvalidG2Power"
    ELSE IF c.pot_pubkey = Bad THEN "InvalidPubKey"
    ELSE LET g == IF b = "Off" THEN 2 ELSE 1 IN
         IF (c.g1[1] * c.g2[0]) % Order # (g * c.g1[0] * c.g2[1]) % Order
         THEN "PairingMismatch"
         ELSE "Ok"

\* The engine's validation: the composite runs both backends and fails when
\* either fails or when their verdicts differ.
EngineValidate(E, c) ==
    LET ra == BackendValidate(E[1], c) IN
    IF Len(E) = 1 THEN ra
    ELSE LET rb == BackendValidate(E[2], c) IN
         IF ra # rb THEN "BackendDisagreement" ELSE ra

\* Contribution::validate.  A check only: the contribution is returned as it
\* was.
ValidateItem(c, E) == [c |-> c, r |-> EngineValidate(E, c)]

Item(a, b, pk) ==
    [g1 |-> [k \in Vec(2) |-> IF k = 0 THEN One ELSE a],
     g2 |-> [k \in Vec(2) |-> IF k = 0 THEN One ELSE b],
     pot_pubkey |-> pk, bls_signature |-> NoBls]

\* Contribution::new: every element is the generator.
FreshItem == Item(One, One, One)
\* The items a batch received from the sequencer may hold: a fresh one, one
\* whose G1 and G2 powers disagree, one with a malformed G1 power and one with
\* a malformed G2 power.
Items == {FreshItem, Item(2, 3, 2), Item(Bad, One, One), Item(One, Bad, One)}

Engines == {<<"Ref">>, <<"Ref", "Alt">>, <<"Ref", "Off">>, <<"Ref", "OffTau">>}
\* The engines whose two backends derive the same scalars.
PreviewEngines == {E \in Engines : generate_tau(E, 0) # TauPanic}
Entropies == 0 .. MaxEntropy

\* ---------------------------------------------------------- the batch
NoSig == <<"none">>
\* The signature collaborator: a signature over the items' public commitments
\* and the identity.
SignBatch(id, pubkeys) == <<"sig", id, pubkeys>>

\* A receipt collected in reverse item order.
receiptReversed(cs) == [i \in DOMAIN cs |-> cs[VLen(cs) - 1 - i].pot_pubkey]

\* BatchContribution::receipt
receipt(cs) == [i \in DOMAIN cs |-> cs[i].pot_pubkey]

NoRes == [kind |-> "None", i |-> 0 - 1, e |-> "-"]
OkRes == [kind |-> "Ok", i |-> 0 - 1, e |-> "-"]
\* CeremoniesError::InvalidCeremony(i, e)
InvalidCeremony(i, e) == [kind |-> "Err", i |-> i, e |-> e]

\* A closure that loses enumerate()'s index and tags every failure with 0.
MapErrNoIndex(i, e) == InvalidCeremony(0, e)

\* The closure's map_err: the failure of item i is tagged with i.
MapErr(i, e) == InvalidCeremony(i, e)

\* A reduction that drops the tasks' failures.
TryForEachSwallow(failures) == {OkRes}

\* A try_for_each that returns any one of the failures of its tasks.
TryForEachAny(failures) == IF failures = {} THEN {OkRes} ELSE failures

\* try_for_each's result: success when no task failed; otherwise the results
\* of the tasks are reduced pairwise in index order and a failure on the left
\* wins, so the failure returned is the one of the lowest index among the
\* tasks that ran and failed.
TryForEachResult(failures) ==
    IF failures = {} THEN {OkRes}
    ELSE {f \in failures : \A g \in failures : f.i <= g.i}

\* Item tasks whose mutable borrows are off by one slot.
WriteBackShifted(cs, i, c) == [cs EXCEPT ![(i + 1) % VLen(cs)] = c]

\* A task that pushes its result as a new item at the end of the batch.
WriteBackPush(cs, i, c) ==
    [k \in Vec(VLen(cs) + 1) |-> IF k = VLen(cs) THEN c ELSE cs[k]]

\* A task that also stores its result in the slot of item 0.
WriteBackSpill(cs, i, c) == [k \in DOMAIN cs |-> IF k = i \/ k = 0 THEN c ELSE cs[k]]

\* The item task i writes through its own &mut Contribution.
WriteBack(cs, i, c) == [cs EXCEPT ![i] = c]

\* zip(&taus): the tau paired with item i.
ZipTauRotated(ts, i) == ts[(i + 1) % VLen(ts)]
ZipTau(ts, i) == ts[i]

\* The number of taus the preview derives.
PotCount == 4

Batch == [contributions |-> contributions, ecdsa_signature |-> ecdsa_signature]
N == VLen(contributions)
NoPot == [entropy |-> 0 - 1, result |-> EmptyVec, done |-> FALSE]
Unset == 0 - 2     \* a slot collect() has not written yet

InitWith(cs, sig, E) ==
    /\ contributions = cs
    /\ ecdsa_signature = sig
    /\ original = [contributions |-> cs, ecdsa_signature |-> sig]
    /\ engine = E
    /\ pc = "idle"
    /\ op = "none"
    /\ entropy = 0
    /\ identity = "None"
    /\ taus = EmptyVec
    /\ status = EmptyVec
    /\ full = FALSE
    /\ errs = {}
    /\ res = NoRes
    /\ out = EmptyVec
    /\ before = [contributions |-> cs, ecdsa_signature |-> sig]
    /\ log = <<>>
    /\ pot = NoPot

Init ==
    \E n \in 1 .. MaxN : \E cs \in [Vec(n) -> Items] :
    \E E \in Engines :
        InitWith(cs, NoSig, E)

\* A completed call, as the caller saw it.
Entry(o, bef, aft, r, v) ==
    [op |-> o, entropy |-> entropy, identity |-> identity, taus |-> taus,
     before |-> bef, after |-> aft, res |-> r, out |-> v]

\* add_entropy, lines 31-37: derive the taus and fork one task per item.  The
\* caller makes at most limit calls on the batch.
CallAddEntropy(limit) ==
    \E en \in Entropies : \E id \in Identities :
    /\ pc = "idle"
    /\ Len(log) < limit
    /\ pc' = IF Panicked(derive_taus(engine, en, N)) THEN "panicked" ELSE "forked"
    /\ op' = "add_entropy"
    /\ entropy' = en
    /\ identity' = id
    /\ taus' = derive_taus(engine, en, N)
    /\ status' = [i \in Vec(N) |-> "pending"]
    /\ full' = FALSE
    /\ errs' = {}
    /\ res' = NoRes
    /\ out' = EmptyVec
    /\ before' = Batch
    /\ UNCHANGED <<contributions, ecdsa_signature, original, engine, log, pot>>

\* validate, lines 47-51: fork one task per item.
CallValidate(limit) ==
    /\ pc = "idle"
    /\ Len(log) < limit
    /\ pc' = "forked"
    /\ op' = "validate"
    /\ taus' = EmptyVec
    /\ status' = [i \in Vec(N) |-> "pending"]
    /\ full' = FALSE
    /\ errs' = {}
    /\ res' = NoRes
    /\ out' = EmptyVec
    /\ before' = Batch
    /\ UNCHANGED <<contributions, ecdsa_signature, original, engine, entropy, identity,
                   log, pot>>

\* A worker that takes a failed item again.
StartRetry(i) ==
    /\ pc = "forked"
    /\ op \in {"add_entropy", "validate"}
    /\ status[i] \in {"pending", "err"}
    /\ status' = [status EXCEPT ![i] = IF full /\ status[i] = "pending"
                                       THEN "skipped" ELSE "running"]
    /\ UNCHANGED <<contributions, ecdsa_signature, original, engine, pc, op, entropy,
                   identity, taus, full, errs, res, out, before, log, pot>>

\* A worker takes item i: a task that finds the short-circuit flag set is
\* dropped without running the closure.
Start(i) ==
    /\ pc = "forked"
    /\ op \in {"add_entropy", "validate"}
    /\ status[i] = "pending"
    /\ status' = [status EXCEPT ![i] = IF full THEN "skipped" ELSE "running"]
    /\ UNCHANGED <<contributions, ecdsa_signature, original, engine, pc, op, entropy,
                   identity, taus, full, errs, res, out, before, log, pot>>

\* A closure that takes the first backend's result for the engine's.
RunItemFirstBackend(i) ==
    IF op = "add_entropy"
    THEN AddTau(contributions[i], ZipTau(taus, i), identity, <<engine[1]>>)
    ELSE ValidateItem(contributions[i], <<engine[1]>>)

\* Item tasks that all work on the storage of item 0.
RunItemAliased(i) ==
    IF op = "add_entropy"
    THEN AddTau(contributions[0], ZipTau(taus, i), identity, engine)
    ELSE ValidateItem(contributions[0], engine)

\* The closure on item i, lines 38-40 and 52-54.
RunItem(i) ==
    IF op = "add_entropy"
    THEN AddTau(contributions[i], ZipTau(taus, i), identity, engine)
    ELSE ValidateItem(contributions[i], engine)

Finish(i) ==
    /\ pc = "forked"
    /\ op \in {"add_entropy", "validate"}
    /\ status[i] = "running"
    /\ LET r == RunItem(i) IN
        /\ contributions' = WriteBack(contributions, i, r.c)
        /\ status' = [status EXCEPT ![i] = IF r.r = "Ok" THEN "ok" ELSE "err"]
        /\ errs' = IF r.r = "Ok" THEN errs ELSE errs \cup {MapErr(i, r.r)}
        /\ full' = (full \/ r.r # "Ok")
    /\ UNCHANGED <<ecdsa_signature, original, engine, pc, op, entropy, identity, taus,
                   res, out, before, log, pot>>

\* A call that returns at the first failure without joining the other tasks.
JoinedEarly ==
    \/ errs # {}
    \/ \A i \in DOMAIN status : status[i] \in {"ok", "err", "skipped"}

\* The parallel iterator has joined: no task is pending or running.
Joined == \A i \in DOMAIN status : status[i] \in {"ok", "err", "skipped"}

\* The signature field after add_entropy: the code never assigns it.
SignatureAfter(sig, id, cs) == sig

\* try_for_each returns and the call returns res, lines 42 and 56.
Return ==
    /\ pc = "forked"
    /\ op \in {"add_entropy", "validate"}
    /\ Joined
    /\ UNCHANGED <<contributions, original, engine, op, entropy, identity, taus, status,
                   full, errs, out, before, pot>>
    /\ ecdsa_signature' = SignatureAfter(ecdsa_signature, identity, contributions)
    /\ \E r \in TryForEachResult(errs) :
        /\ res' = r
        /\ log' = Append(log, Entry(op, before,
                                    [contributions |-> contributions',
                                     ecdsa_signature |-> ecdsa_signature'], r, out))
    /\ pc' = "idle"

\* receipt, lines 21-23.
CallReceipt(limit) ==
    /\ pc = "idle"
    /\ Len(log) < limit
    /\ op' = "receipt"
    /\ out' = receipt(contributions)
    /\ res' = NoRes
    /\ before' = Batch
    /\ UNCHANGED <<contributions, ecdsa_signature, original, engine, pc, entropy, identity,
                   taus, status, full, errs, pot>>
    /\ log' = Append(log, Entry("receipt", Batch,
                                [contributions |-> contributions',
                                 ecdsa_signature |-> ecdsa_signature'], NoRes, out'))

\* The caller takes a new copy of the batch it received (derive(Clone)).
Clone ==
    /\ pc = "idle"
    /\ Batch # original
    /\ contributions' = original.contributions
    /\ ecdsa_signature' = original.ecdsa_signature
    /\ op' = "clone"
    /\ UNCHANGED <<original, engine, pc, entropy, identity, taus, status, full, errs,
                   res, out, before, log, pot>>

\* get_pot_pubkeys, lines 75-77: derive PotCount taus and fork one task per tau.
CallPot ==
    \E en \in Entropies :
    /\ pc = "idle"
    /\ ~pot.done
    /\ log = <<>>
    /\ pc' = IF Panicked(derive_taus(engine, en, PotCount)) THEN "panicked" ELSE "forked"
    /\ op' = "get_pot_pubkeys"
    /\ entropy' = en
    /\ taus' = derive_taus(engine, en, PotCount)
    /\ status' = [i \in Vec(PotCount) |-> "pending"]
    /\ full' = FALSE
    /\ errs' = {}
    /\ res' = NoRes
    /\ out' = [i \in Vec(PotCount) |-> Unset]
    /\ before' = Batch
    /\ UNCHANGED <<contributions, ecdsa_signature, original, engine, identity, log, pot>>

PotStart(i) ==
    /\ pc = "forked"
    /\ op = "get_pot_pubkeys"
    /\ status[i] = "pending"
    /\ status' = [status EXCEPT ![i] = "running"]
    /\ UNCHANGED <<contributions, ecdsa_signature, original, engine, pc, op, entropy,
                   identity, taus, full, errs, res, out, before, log, pot>>

\* A task that is still pending when another has panicked may be dropped by
\* the unwinding worker.
PotSkip(i) ==
    /\ pc = "forked"
    /\ op = "get_pot_pubkeys"
    /\ status[i] = "pending"
    /\ full
    /\ status' = [status EXCEPT ![i] = "skipped"]
    /\ UNCHANGED <<contributions, ecdsa_signature, original, engine, pc, op, entropy,
                   identity, taus, full, errs, res, out, before, log, pot>>

\* A closure that returns temp[0].
PotItemFirst(E, tau) ==
    LET r == add_tau_g2(E, tau, [k \in Vec(2) |-> One])
    IN  [r EXCEPT !.v = [k \in Vec(2) |-> r.v[0]]]

\* The map closure, lines 79-81: temp = [one, one], add_tau_g2, temp[1].
PotItem(E, tau) == add_tau_g2(E, tau, [k \in Vec(2) |-> One])

\* A collect() that stores the values in the order the tasks finish.
PotFinishArrival(i) ==
    /\ pc = "forked"
    /\ op = "get_pot_pubkeys"
    /\ status[i] = "running"
    /\ LET r == PotItem(engine, taus[i])
           done == Cardinality({k \in DOMAIN status : status[k] = "ok"})
       IN
        /\ status' = [status EXCEPT ![i] = IF r.ok THEN "ok" ELSE "panic"]
        /\ out' = IF r.ok THEN [out EXCEPT ![done] = r.v[1]] ELSE out
        /\ full' = (full \/ ~r.ok)
    /\ UNCHANGED <<contributions, ecdsa_signature, original, engine, pc, op, entropy,
                   identity, taus, errs, res, before, log, pot>>

\* unwrap() panics on a failure; otherwise collect() stores the value at the
\* task's index.
PotFinish(i) ==
    /\ pc = "forked"
    /\ op = "get_pot_pubkeys"
    /\ status[i] = "running"
    /\ LET r == PotItem(engine, taus[i]) IN
        /\ status' = [status EXCEPT ![i] = IF r.ok THEN "ok" ELSE "panic"]
        /\ out' = IF r.ok THEN [out EXCEPT ![i] = r.v[1]] ELSE out
        /\ full' = (full \/ ~r.ok)
    /\ UNCHANGED <<contributions, ecdsa_signature, original, engine, pc, op, entropy,
                   identity, taus, errs, res, before, log, pot>>

\* Every task returned a value: the call returns the collected vector.
PotReturn ==
    /\ pc = "forked"
    /\ op = "get_pot_pubkeys"
    /\ \A i \in DOMAIN status : status[i] = "ok"
    /\ pc' = "idle"
    /\ pot' = [entropy |-> entropy, result |-> out, done |-> TRUE]
    /\ UNCHANGED <<contributions, ecdsa_signature, original, engine, op, entropy,
                   identity, taus, status, full, errs, res, out, before, log>>

\* A task panicked: the panic is resumed in the caller once the tasks have
\* stopped, and the call never returns.
PotPanic ==
    /\ pc = "forked"
    /\ op = "get_pot_pubkeys"
    /\ \A i \in DOMAIN status : status[i] \in {"ok", "panic", "skipped"}
    /\ \E i \in DOMAIN status : status[i] = "panic"
    /\ pc' = "panicked"
    /\ UNCHANGED <<contributions, ecdsa_signature, original, engine, op, entropy,
                   identity, taus, status, full, errs, res, out, before, log, pot>>

\* One call on a received batch: add_entropy, validate or receipt.
Next ==
    \/ CallAddEntropy(1)
    \/ CallValidate(1)
    \/ \E i \in DOMAIN status : Start(i)
    \/ \E i \in DOMAIN status : Finish(i)
    \/ Return
    \/ CallReceipt(1)

Spec == Init /\ [][Next]_vars

\* Up to MaxCalls calls, one after the other, on a received batch or on new
\* copies of it.
NextSeq ==
    \/ CallAddEntropy(MaxCalls)
    \/ CallValidate(MaxCalls)
    \/ \E i \in DOMAIN status : Start(i)
    \/ \E i \in DOMAIN status : Finish(i)
    \/ Return
    \/ CallReceipt(MaxCalls)
    \/ Clone

SpecSeq == Init /\ [][NextSeq]_vars

\* The preview specification: a freshly-initialised batch, the standalone
\* preview, then one add_entropy and the receipt.
InitPreview ==
    \E n \in 1 .. MaxFresh : \E E \in PreviewEngines :
        InitWith([i \in Vec(n) |-> FreshItem], NoSig, E)

NextPreview ==
    \/ CallPot
    \/ \E i \in DOMAIN status : PotStart(i)
    \/ \E i \in DOMAIN status : PotSkip(i)
    \/ \E i \in DOMAIN status : PotFinish(i)
    \/ PotReturn
    \/ PotPanic
    \/ CallAddEntropy(1)
    \/ \E i \in DOMAIN status : Start(i)
    \/ \E i \in DOMAIN status : Finish(i)
    \/ Return
    \/ CallReceipt(2)

SpecPreview == InitPreview /\ [][NextPreview]_vars

\* -------------------------------------------------------- properties
\* The per-item operation of the current call on item i as it was when the
\* call started, and the items on which it fails.
PerItem(i) ==
    IF op = "add_entropy"
    THEN AddTau(before.contributions[i], taus[i], identity, engine)
    ELSE ValidateItem(before.contributions[i], engine)

Faulty == {i \in Vec(N) : PerItem(i).r # "Ok"}

\* add_entropy or validate has returned and the caller has done nothing since.
Returned == pc = "idle" /\ op \in {"add_entropy", "validate"} /\ res.kind # "None"

\* C1: when add_entropy or validate returns InvalidCeremony(i, e), item i is
\* an item of the batch whose per-item operation ran in this call and
\* returned the cause e; and when item k is the only faulty item, the call
\* returns InvalidCeremony(k, cause of k).
C1_IndexFidelity ==
    Returned =>
        /\ res.kind = "Err" =>
            /\ res.i \in Vec(N)
            /\ status[res.i] = "err"
            /\ PerItem(res.i).r = res.e
        /\ \A k \in Vec(N) : Faulty = {k} => res = InvalidCeremony(k, PerItem(k).r)

\* The last item of a batch of two or more is the only faulty one, and the
\* call reported it.
C1_Witness ==
    /\ Returned
    /\ N >= 2
    /\ Faulty = {N - 1}
    /\ res.kind = "Err"
    /\ res.i = N - 1

\* C2: add_entropy and validate return success exactly when the per-item
\* operation succeeds on every item; a failure of any item that ran makes the
\* call return an error; and on success every item ran and holds the
\* per-item operation's result.
C2_NoErrorSwallowed ==
    Returned =>
        /\ res.kind = "Ok" <=> Faulty = {}
        /\ (\E i \in Vec(N) : status[i] = "err") => res.kind = "Err"
        /\ res.kind = "Ok" =>
            \A i \in Vec(N) : status[i] = "ok" /\ contributions[i] = PerItem(i).c

\* A successful add_entropy on two or more items, all of them updated.
C2_Witness ==
    /\ Returned
    /\ op = "add_entropy"
    /\ res.kind = "Ok"
    /\ N >= 2
    /\ \A i \in Vec(N) : contributions[i] # before.contributions[i]

\* C3: a successful add_entropy has attached the signature of the updated
\* batch under the identity it was given.
C3_SignatureAttached ==
    (Returned /\ op = "add_entropy" /\ res.kind = "Ok") =>
        ecdsa_signature = SignBatch(identity, receipt(contributions))

\* C4: the reported index is not always the lowest failing index.  That is
\* the reachability of C4_Witness, a return that reports an index above a
\* faulty item.  What holds of every failed return, and says how such a
\* return comes about: the reported index is that of a faulty item whose
\* task ran and failed, no task of a lower index failed, and every faulty
\* item of a lower index was dropped by the short-circuit before it ran.
C4_ReportedNotAlwaysLowest ==
    (Returned /\ res.kind = "Err") =>
        /\ res.i \in Faulty
        /\ status[res.i] = "err"
        /\ \A j \in Vec(N) : j < res.i =>
            /\ status[j] \in {"ok", "skipped"}
            /\ j \in Faulty => status[j] = "skipped"

\* Two items of the batch are faulty and the call reported the higher one:
\* the task of the lower one found the short-circuit flag set by the higher
\* one and was dropped.
C4_Witness ==
    /\ Returned
    /\ res.kind = "Err"
    /\ \E j \in Faulty : j < res.i /\ status[j] = "skipped"

\* C5: a validate that returns success leaves every contribution and the
\* signature as they were, and a second validate of the batch the first one
\* accepted succeeds too and leaves the same batch.
C5_ValidateReadOnly ==
    /\ (Returned /\ op = "validate" /\ res.kind = "Ok") => Batch = before
    /\ \A k \in 1 .. Len(log) - 1 :
        (/\ log[k].op = "validate"
         /\ log[k].res.kind = "Ok"
         /\ log[k + 1].op = "validate"
         /\ log[k + 1].before = log[k].after) =>
            /\ log[k + 1].res.kind = "Ok"
            /\ log[k + 1].after = log[k].before

\* validate has accepted the same batch of two or more items twice.
C5_Witness ==
    /\ Len(log) = 2
    /\ log[1].op = "validate" /\ log[1].res.kind = "Ok"
    /\ log[2].op = "validate" /\ log[2].res.kind = "Ok"
    /\ log[2].before = log[1].after
    /\ N >= 2

\* add_entropy with the items processed one after the other in index order,
\* stopping at the first failure: the batch, the result and the number of
\* items that ran.
RECURSIVE SeqAddEntropy(_, _, _, _, _)
SeqAddEntropy(cs, ts, id, E, k) ==
    IF k = VLen(cs) THEN [cs |-> cs, res |-> OkRes, ran |-> k]
    ELSE LET r == AddTau(cs[k], ts[k], id, E)
             cs2 == [cs EXCEPT ![k] = r.c]
         IN  IF r.r # "Ok"
             THEN [cs |-> cs2, res |-> InvalidCeremony(k, r.r), ran |-> k + 1]
             ELSE SeqAddEntropy(cs2, ts, id, E, k + 1)

\* C6: under every interleaving add_entropy succeeds exactly when the
\* sequential run succeeds, and then leaves the same batch; every item that
\* ran in both has the state and the success or failure (with its cause) the
\* sequential run gives it; an item that did not run is as it was.
C6_Independence ==
    (Returned /\ op = "add_entropy") =>
        LET seq == SeqAddEntropy(before.contributions, taus, identity, engine, 0) IN
        /\ (res.kind = "Ok") = (seq.res.kind = "Ok")
        /\ res.kind = "Ok" => contributions = seq.cs
        /\ \A i \in Vec(N) :
            /\ (i < seq.ran /\ status[i] \in {"ok", "err"}) =>
                /\ contributions[i] = seq.cs[i]
                /\ (status[i] = "err") = (seq.res.kind = "Err" /\ seq.res.i = i)
                /\ status[i] = "err" => seq.res \in errs
            /\ status[i] = "skipped" => contributions[i] = before.contributions[i]

\* An add_entropy in which the item the sequential run stops at failed and an
\* item behind it, which the sequential run never reaches, was updated too.
C6_Witness ==
    /\ Returned
    /\ op = "add_entropy"
    /\ LET seq == SeqAddEntropy(before.contributions, taus, identity, engine, 0) IN
        /\ seq.res.kind = "Err"
        /\ status[seq.res.i] = "err"
        /\ \E i \in Vec(N) : i >= seq.ran /\ status[i] = "ok"

\* C7: two add_entropy calls with the same entropy derive the same taus, and
\* when both succeed on copies of the same batch they leave the same public
\* commitments, whatever the scheduling and the identity.
C7_Determinism ==
    \A a, b \in 1 .. Len(log) :
        (/\ log[a].op = "add_entropy"
         /\ log[b].op = "add_entropy"
         /\ log[a].entropy = log[b].entropy) =>
            /\ log[a].taus = log[b].taus
            /\ (/\ log[a].res.kind = "Ok"
                /\ log[b].res.kind = "Ok"
                /\ log[a].before.contributions = log[b].before.contributions) =>
                    receipt(log[a].after.contributions) = receipt(log[b].after.contributions)

\* add_entropy has succeeded with the same entropy on two copies of a batch
\* of two or more items, under different identities.
C7_Witness ==
    /\ Len(log) = 2
    /\ log[1].op = "add_entropy" /\ log[1].res.kind = "Ok"
    /\ log[2].op = "add_entropy" /\ log[2].res.kind = "Ok"
    /\ log[1].entropy = log[2].entropy
    /\ log[1].identity # log[2].identity
    /\ log[1].before = log[2].before
    /\ N >= 2

\* The preview was taken for an entropy, then add_entropy succeeded with that
\* entropy on the freshly-initialised batch and receipt() was called.
PreviewCase ==
    /\ pot.done
    /\ Len(log) >= 2
    /\ log[1].op = "add_entropy"
    /\ log[1].res.kind = "Ok"
    /\ log[1].entropy = pot.entropy
    /\ log[1].before.contributions = [i \in Vec(N) |-> FreshItem]
    /\ log[2].op = "receipt"

\* C8 as claimed: for a fresh batch of any size N the preview equals the
\* receipt, in number and position by position.
C8_PreviewEqualsReceipt == PreviewCase => pot.result = log[2].out

\* C8 as amended: the preview always has PotCount values; it agrees with the
\* receipt at every position both have, and equals it when N = PotCount.
C8_PreviewMatchesPrefix ==
    PreviewCase =>
        /\ VLen(pot.result) = PotCount
        /\ VLen(log[2].out) = N
        /\ \A i \in Vec(N) \cap Vec(PotCount) : pot.result[i] = log[2].out[i]
        /\ N = PotCount => pot.result = log[2].out

\* The preview and the receipt of a batch of PotCount items, which are equal.
C8_Witness ==
    /\ PreviewCase
    /\ N = PotCount
    /\ pot.result = log[2].out

\* C9: get_pot_pubkeys never aborts: the call never ends in a panic.
C9_PreviewInfallible == pc # "panicked"

\* C10: receipt() returns one value per item, the value at position i being
\* the public commitment of item i, and leaves the batch as it was.
C10_ReceiptRoundTrip ==
    \A k \in 1 .. Len(log) :
        log[k].op = "receipt" =>
            /\ DOMAIN log[k].out = Vec(N)
            /\ \A i \in Vec(N) : log[k].out[i] = log[k].before.contributions[i].pot_pubkey
            /\ log[k].after = log[k].before

\* receipt() after a successful add_entropy on two or more items whose
\* commitments differ.
C10_Witness ==
    /\ Len(log) = 2
    /\ log[1].op = "add_entropy" /\ log[1].res.kind = "Ok"
    /\ log[2].op = "receipt"
    /\ log[2].before = log[1].after
    /\ N >= 2
    /\ log[2].out[0] # log[2].out[N - 1]

\* C11: with a composite engine a call returns success only when, on every
\* item, each of the two backends alone succeeds and both give the state the
\* batch now holds, and (add_entropy) both derive the taus that were used; the
\* mismatched pair Both<Ref, Off> never lets add_entropy or validate succeed,
\* and every reported disagreement is a real one.
C11_CompositeAgreement ==
    (Returned /\ Len(engine) = 2) =>
        LET alone(b, i) ==
                IF op = "add_entropy"
                THEN AddTau(before.contributions[i], taus[i], identity, <<b>>)
                ELSE ValidateItem(before.contributions[i], <<b>>)
        IN
        /\ res.kind = "Ok" =>
            /\ \A i \in Vec(N) :
                /\ alone(engine[1], i).r = "Ok"
                /\ alone(engine[2], i) = alone(engine[1], i)
                /\ contributions[i] = alone(engine[1], i).c
            /\ op = "add_entropy" =>
                /\ taus = derive_taus(<<engine[1]>>, entropy, N)
                /\ taus = derive_taus(<<engine[2]>>, entropy, N)
        /\ engine = <<"Ref", "Off">> => res.kind = "Err"
        /\ (res.kind = "Err" /\ res.e = "BackendDisagreement") =>
            alone(engine[1], res.i) # alone(engine[2], res.i)

\* validate under Both<Ref, Off> on an item that Ref alone accepts: the call
\* reports the disagreement.
C11_Witness ==
    /\ Returned
    /\ op = "validate"
    /\ engine = <<"Ref", "Off">>
    /\ res.kind = "Err"
    /\ res.e = "BackendDisagreement"
    /\ ValidateItem(before.contributions[res.i], <<"Ref">>).r = "Ok"

\* The scalar of the k-th draw (the first is draw 0) from a stream freshly
\* seeded with the call's entropy.
NthDraw(k) == generate_tau(engine, KeyStream(entropy, k))

\* C12: from the start of an add_entropy call to its return there is exactly
\* one tau per item, tau i is the i-th sequential draw from the entropy, and
\* every item whose task has run holds the result of applying the i-th draw
\* to its state before the call, which no other, different tau of the batch
\* would give.
C12_TauAlignment ==
    (op = "add_entropy" /\ pc # "panicked") =>
        /\ DOMAIN taus = DOMAIN contributions
        /\ \A i \in Vec(N) : taus[i] = NthDraw(i)
        /\ \A i \in Vec(N) : status[i] \in {"ok", "err"} =>
            /\ contributions[i] =
                   AddTau(before.contributions[i], NthDraw(i), identity, engine).c
            /\ \A j \in Vec(N) : (status[i] = "ok" /\ NthDraw(j) # NthDraw(i)) =>
                   contributions[i] #
                       AddTau(before.contributions[i], NthDraw(j), identity, engine).c

\* add_entropy returned success on three items whose taus are pairwise
\* different.
C12_Witness ==
    /\ Returned
    /\ op = "add_entropy"
    /\ res.kind = "Ok"
    /\ N = 3
    /\ taus[0] # taus[1] /\ taus[1] # taus[2] /\ taus[0] # taus[2]

\* The steps of one call that C13 allows: the taus stay as derived at the
\* call, the closure of an item is entered only from pending, and an item
\* whose closure has returned, or that was dropped, is never taken again.
SingleRun ==
    (pc = "forked" /\ op \in {"add_entropy", "validate"}) =>
        /\ taus' = taus
        /\ op' = op
        /\ \A i \in Vec(N) :
            /\ status'[i] = "running" => status[i] \in {"pending", "running"}
            /\ status[i] \in {"ok", "err", "skipped"} => status'[i] = status[i]
            /\ contributions'[i] # contributions[i] =>
                   (status[i] = "running" /\ status'[i] \in {"ok", "err"})

\* C13: within one add_entropy or validate call the closure of each item is
\* invoked at most once and the taus are derived once; a call that returned
\* success ran every item's closure (exactly once), and a call that returned
\* a failure left every item at most one run and did not restart any.
C13_NoRetry ==
    /\ [][SingleRun]_vars
    /\ [](Returned =>
            /\ res.kind = "Ok" => \A i \in Vec(N) : status[i] = "ok"
            /\ res.kind = "Err" =>
                   \A i \in Vec(N) : status[i] \in {"ok", "err", "skipped"})

\* A call returned a failure while another item's closure had run and
\* succeeded: the failed item was run once and not again.
C13_Witness ==
    /\ Returned
    /\ res.kind = "Err"
    /\ \E i, j \in Vec(N) : status[i] = "err" /\ status[j] = "ok"

\* C14: add_entropy and validate return only after every task they started
\* has finished: at and after the return no task is waiting or running, a
\* successful return has every one of the N tasks completed, the batch the
\* caller sees is the one the call logged at its return, and no step of a
\* task happens once the call has returned.
C14_CompletionBeforeReturn ==
    /\ [](Returned =>
            /\ \A i \in Vec(N) : status[i] \notin {"pending", "running"}
            /\ res.kind = "Ok" => \A i \in Vec(N) : status[i] = "ok"
            /\ log # <<>>
            /\ log[Len(log)].after.contributions = contributions)
    /\ [][Returned => (status' = status /\ contributions' = contributions
                       /\ errs' = errs /\ full' = full)]_vars

\* A call returned a failure after waiting for a task that ran to success
\* beside the failed one, while a third task was dropped before it ran.
C14_Witness ==
    /\ Returned
    /\ res.kind = "Err"
    /\ \E i, j \in Vec(N) :
        /\ i # j /\ i # res.i /\ j # res.i
        /\ status[i] = "ok"
        /\ status[j] = "skipped"

\* What the task of item i computes from item i and tau i alone.
Own(i) ==
    IF op = "add_entropy"
    THEN AddTau(contributions[i], taus[i], identity, engine)
    ELSE ValidateItem(contributions[i], engine)

\* A step in which the task of item i finishes.
Finishes(i) == status[i] = "running" /\ status'[i] \in {"ok", "err"}

\* C15: every step of a call that finishes a task or changes an item is the
\* step of exactly one task i; what it stores and reports is computed from
\* item i and tau i alone, whatever the other items hold and whichever other
\* tasks are running, and it is stored at index i only: every other item,
\* the ones of running tasks included, is left as it was.
C15_DisjointAccess ==
    [][(/\ pc = "forked"
        /\ op \in {"add_entropy", "validate"}
        /\ (\E i \in Vec(N) : Finishes(i)) \/ contributions' # contributions) =>
        \E i \in Vec(N) :
            /\ Finishes(i)
            /\ \A j \in Vec(N) \ {i} :
                /\ status'[j] = status[j]
                /\ contributions'[j] = contributions[j]
            /\ DOMAIN contributions' = DOMAIN contributions
            /\ contributions'[i] = Own(i).c
            /\ (status'[i] = "ok") = (Own(i).r = "Ok")
            /\ errs' \ errs \subseteq {InvalidCeremony(i, Own(i).r)}]_vars

\* add_entropy is under way: one task has stored its changed item while
\* another task is running on an item that is still as it was before the
\* call.
C15_Witness ==
    /\ pc = "forked"
    /\ op = "add_entropy"
    /\ \E i, j \in Vec(N) :
        /\ i # j
        /\ status[i] = "running"
        /\ contributions[i] = before.contributions[i]
        /\ status[j] = "ok"
        /\ contributions[j] # before.contributions[j]

\* C16: from the start of an add_entropy or validate call to after its
\* return, with success or with a failure, the batch has the items it had
\* before the call, as many and at the same indices 0 .. N-1: an item whose
\* task has not run is the item that was at its index, and an item whose
\* task ran is what the operation made of the item that was at its index.
C16_ShapePreserved ==
    (op \in {"add_entropy", "validate"} /\ pc # "panicked") =>
        /\ DOMAIN contributions = DOMAIN before.contributions
        /\ DOMAIN contributions = Vec(VLen(before.contributions))
        /\ DOMAIN status = DOMAIN contributions
        /\ \A i \in DOMAIN contributions :
            IF status[i] \in {"ok", "err"}
            THEN contributions[i] = PerItem(i).c
            ELSE contributions[i] = before.contributions[i]

\* add_entropy returned a failure on a batch of three items after it had
\* changed some of them.
C16_Witness ==
    /\ Returned
    /\ op = "add_entropy"
    /\ res.kind = "Err"
    /\ N = 3
    /\ contributions # before.contributions

\* The G2 generator raised by the k-th draw from the given entropy: what tau k
\* makes of the second of two identity powers.
PotOf(E, seed, k) == (One * generate_tau(E, KeyStream(seed, k))) % Order

\* C17: get_pot_pubkeys derives PotCount taus, the first PotCount sequential
\* draws from its entropy, whatever batch exists and whatever its size; the
\* value of a finished task i is tau i applied to the identity powers and
\* stands at index i; the returned vector has exactly PotCount values in tau
\* index order, whatever order the tasks finished in; and the call leaves the
\* batch as it was.
C17_PreviewShape ==
    /\ (op = "get_pot_pubkeys" /\ pc # "panicked") =>
        /\ DOMAIN taus = Vec(PotCount)
        /\ \A i \in Vec(PotCount) : taus[i] = NthDraw(i)
        /\ DOMAIN out = Vec(PotCount)
        /\ \A i \in Vec(PotCount) :
            out[i] = IF status[i] = "ok" THEN PotOf(engine, entropy, i) ELSE Unset
        /\ Batch = original
    /\ pot.done =>
        /\ DOMAIN pot.result = Vec(PotCount)
        /\ \A i \in Vec(PotCount) : pot.result[i] = PotOf(engine, pot.entropy, i)

\* get_pot_pubkeys returned, beside a batch that has not PotCount items, a
\* vector whose values are not all the same.
C17_Witness ==
    /\ pot.done
    /\ op = "get_pot_pubkeys"
    /\ N # PotCount
    /\ \E i, j \in Vec(PotCount) : pot.result[i] # pot.result[j]
    /\ Batch = original

\* The first n elements of a vector.
Prefix(v, n) == [i \in Vec(n) |-> v[i]]

\* C18: for the same entropy and engine, derive_taus of a size n is the first
\* n elements of derive_taus of any size m >= n; and of the taus an
\* add_entropy call derives for a batch of N items and the PotCount taus the
\* get_pot_pubkeys call before it derived from the same entropy, the shorter
\* vector is the first elements of the longer.
C18_PrefixCompatible ==
    /\ [](\A seed \in Entropies : \A m \in 0 .. PotCount : \A n \in 0 .. m :
            derive_taus(engine, seed, n) = Prefix(derive_taus(engine, seed, m), n))
    /\ [][(/\ op = "get_pot_pubkeys"
           /\ op' = "add_entropy"
           /\ entropy' = entropy) =>
               IF N <= PotCount
               THEN taus' = Prefix(taus, N)
               ELSE taus = Prefix(taus', PotCount)]_vars

\* add_entropy was called, after a get_pot_pubkeys with the same entropy, on
\* a batch that has two or three items, and derived taus that are not all the
\* same.
C18_Witness ==
    /\ pot.done
    /\ op = "add_entropy"
    /\ entropy = pot.entropy
    /\ N \in 2 .. (PotCount - 1)
    /\ DOMAIN taus = Vec(N)
    /\ taus[0] # taus[1]
    /\ taus = Prefix(derive_taus(engine, pot.entropy, PotCount), N)

====
